---- MODULE Spec2Model ----
(***************************************************************************)
(* Block removal in letta-obsidian's maintenance scripts.                  *)
(*                                                                         *)
(* remove_sync_functions.py reads main.ts as a list of lines, runs one     *)
(* forward pass per name of functions_to_remove that clears keep_lines     *)
(* entries by brace counting, and writes the kept lines back.              *)
(* remove_filesystem.py removes the same functions from the file's text    *)
(* with one regular-expression substitution per name.                      *)
(*                                                                         *)
(* A line is the sequence of its characters, terminator included, so that  *)
(* `in`, str.count and the regular expression are computed on the text.    *)
(***************************************************************************)
EXTENDS Integers, Sequences, FiniteSets, TLC

\* ------------------------------------------------------------------ bounds
MaxLen == 4         \* longest main.ts, in lines
MaxRuns == 2        \* how many times remove_sync_functions.py is run in a row

\* ------------------------------------------------------------ the alphabet
TabAsync == <<"\t", "a", "s", "y", "n", "c", " ">>
sync == <<"s", "y", "n", "c">>
syncAll == <<"s", "y", "n", "c", "A", "l", "l">>
\* functions_to_remove is a literal list of seven names in both scripts, none
\* of which is part of another; the names here stand for its entries and add
\* the case of one name being a prefix of the other.
Names == {sync, syncAll}

\* the text of a declaration after the name: "(): Promise<void> {\n"
DeclTail ==
  <<"(", ")", ":", " ", "P", "r", "o", "m", "i", "s", "e", "<", "v", "o", "i", "d", ">", " ", "{", "\n">>
Decl(name) == TabAsync \o name \o DeclTail
IfLine == <<"\t", "\t", "i", "f", " ", "(", "x", ")", " ", "{", "\n">>
InnerClose == <<"\t", "\t", "}", "\n">>
OuterClose == <<"\t", "}", "\n">>
Stmt == <<"\t", "\t", "y", "(", ")", ";", "\n">>
LineVocab == {Decl(sync), Decl(syncAll), IfLine, InnerClose, OuterClose, Stmt}

RECURSIVE SeqsUpTo(_, _)
SeqsUpTo(S, n) ==
  IF n = 0 THEN {<< >>}
  ELSE LET shorter == SeqsUpTo(S, n - 1)
       IN  shorter \cup {Append(s, x) : s \in {t \in shorter : Len(t) = n - 1}, x \in S}
Buffers == SeqsUpTo(LineVocab, MaxLen)

\* the orders in which a set of distinct names can be listed
Injective(q) == \A a, b \in DOMAIN q : q[a] = q[b] => a = b
FuncLists == {q \in SeqsUpTo(Names, Cardinality(Names)) : Injective(q)}

\* --------------------------------------------------------- text primitives
\* pat in s  (Python's substring test)
Contains(s, pat) ==
  \E k \in 0..(Len(s) - Len(pat)) : \A j \in 1..Len(pat) : s[k + j] = pat[j]

\* s.count(ch) for a one-character ch
RECURSIVE CountFrom(_, _, _)
CountFrom(s, ch, k) ==
  IF k > Len(s) THEN 0
  ELSE (IF s[k] = ch THEN 1 ELSE 0) + CountFrom(s, ch, k + 1)
Count(s, ch) == CountFrom(s, ch, 1)

\* f'\tasync {func_name}('
Signature(func_name) == TabAsync \o func_name \o <<"(">>
IsFunctionStart(line, func_name) == Contains(line, Signature(func_name))

\* brace_count after the two updates of the in-function branch
CountBraces(brace_count, line) == brace_count + Count(line, "{") - Count(line, "}")

FunctionEndedNoTab(brace_count, line) == brace_count = 0
\* brace_count == 0 and '\t}' in line
FunctionEnded(brace_count, line) == brace_count = 0 /\ Contains(line, <<"\t", "}">>)

\* the values each name's pass starts from
ResetCarried(prev) == prev
ResetStuck(prev) == TRUE
ResetInFunction(prev) == FALSE

\* One name's pass over the lines on its own, started at line k with the
\* scanner state (inf, bc): the indices whose keep_lines entry it clears.
RECURSIVE PassFrom(_, _, _, _, _)
PassFrom(ls, f, k, inf, bc) ==
  IF k > Len(ls) THEN {}
  ELSE IF IsFunctionStart(ls[k], f) THEN {k} \cup PassFrom(ls, f, k + 1, TRUE, 0)
  ELSE IF inf
    THEN LET b == CountBraces(bc, ls[k])
         IN  {k} \cup PassFrom(ls, f, k + 1, ~FunctionEnded(b, ls[k]), b)
    ELSE PassFrom(ls, f, k + 1, FALSE, bc)
DroppedAlone(ls, f) == PassFrom(ls, f, 1, FALSE, 0)

\* the flag stored for the declaration line
StartMarkKept == TRUE
StartMark == FALSE

\* the write-back loop: the lines whose keep_lines entry is set, in order
RECURSIVE KeptFrom(_, _, _)
KeptFrom(ls, keep, k) ==
  IF k > Len(ls) THEN << >>
  ELSE (IF keep[k] THEN <<ls[k]>> ELSE << >>) \o KeptFrom(ls, keep, k + 1)
WriteBackAll(ls, keep) == ls
WriteBack(ls, keep) == KeptFrom(ls, keep, 1)

\* f.read(): the file as one string
RECURSIVE Flatten(_)
Flatten(ls) == IF ls = << >> THEN << >> ELSE Head(ls) \o Flatten(Tail(ls))

\* ------------------------------------------- the pattern of remove_filesystem
\* rf'\n\tasync {func}\([^)]*\): Promise<[^>]+> \{{[\s\S]*?\n\t\}}\n', piece by piece
PatHead(func) == <<"\n">> \o TabAsync \o func \o <<"(">>
PatReturns == <<")", ":", " ", "P", "r", "o", "m", "i", "s", "e", "<">>
PatOpen == <<">", " ", "{">>
PatClose == <<"\n", "\t", "}", "\n">>

\* the literal lit stands in c at position p
LitAt(c, p, lit) ==
  /\ p + Len(lit) - 1 <= Len(c)
  /\ \A j \in 1..Len(lit) : c[p + j - 1] = lit[j]

Least(S) == CHOOSE x \in S : \A y \in S : x <= y

\* the first position from p on where ch stands, 0 if there is none
FirstChar(c, p, ch) ==
  LET at == {q \in p..Len(c) : c[q] = ch}
  IN  IF at = {} THEN 0 ELSE Least(at)

\* the first position from p on where lit stands, 0 if there is none
FirstLit(c, p, lit) ==
  LET at == {q \in p..Len(c) : LitAt(c, q, lit)}
  IN  IF at = {} THEN 0 ELSE Least(at)

\* The position just after the match that starts at p, 0 if none starts there.
\* [^)]* stops at the first ")" and [^>]+ at the first ">", since the literal
\* that follows each begins with the excluded character; [\s\S]*? is lazy, so
\* the match ends at the first closing literal.
MatchEnd(c, p, func) ==
  IF ~LitAt(c, p, PatHead(func)) THEN 0
  ELSE LET r1 == FirstChar(c, p + Len(PatHead(func)), ")")
       IN  IF r1 = 0 \/ ~LitAt(c, r1, PatReturns) THEN 0
           ELSE LET q2 == r1 + Len(PatReturns)
                    r2 == FirstChar(c, q2, ">")
                IN  IF r2 = 0 \/ r2 = q2 \/ ~LitAt(c, r2, PatOpen) THEN 0
                    ELSE LET r3 == FirstLit(c, r2 + Len(PatOpen), PatClose)
                         IN  IF r3 = 0 THEN 0 ELSE r3 + Len(PatClose)

\* the first position from p on where a match starts, 0 if there is none
FirstMatch(c, p, func) ==
  LET at == {q \in p..Len(c) : MatchEnd(c, q, func) # 0}
  IN  IF at = {} THEN 0 ELSE Least(at)

\* re.sub(pattern, '\n', content) from position p on: matches are replaced
\* left to right, the search resuming where the last match ended
RECURSIVE SubFrom(_, _, _)
SubFrom(c, p, func) ==
  LET m == FirstMatch(c, p, func)
  IN  IF m = 0 THEN SubSeq(c, p, Len(c))
      ELSE SubSeq(c, p, m - 1) \o <<"\n">> \o SubFrom(c, MatchEnd(c, m, func), func)
ReSubToEnd(c, func) ==
  LET p == FirstLit(c, 1, PatHead(func))
  IN  IF p = 0 THEN c ELSE SubSeq(c, 1, p - 1) \o <<"\n">>
ReSub(c, func) == SubFrom(c, 1, func)

\* ------------------------------------------------------------------- state
VARIABLES
  main_ts,        \* the file remove_sync_functions.py reads and rewrites
  lines,          \* f.readlines()
  keep_lines,
  functions_to_remove,
  fi,             \* position of func_name in functions_to_remove (0: before the loop)
  in_function,
  brace_count,
  func_start,     \* index of the last declaration line seen, -1 if none
  i,              \* index of the line the inner loop is at
  pc,             \* "for_func", "scan", "done"
  run,            \* which run of the script this is
  outputs,        \* per finished run: the lines it read and the lines it wrote
  content,        \* remove_filesystem.py: f.read() of the same file
  fs_k            \* remove_filesystem.py: names already substituted

vars == <<main_ts, lines, keep_lines, functions_to_remove, fi, in_function,
          brace_count, func_start, i, pc, run, outputs, content, fs_k>>

func_name == functions_to_remove[fi]

Init ==
  /\ main_ts \in Buffers
  /\ lines = main_ts
  /\ keep_lines = [k \in 1..Len(main_ts) |-> TRUE]
  /\ functions_to_remove \in FuncLists
  /\ fi = 0
  /\ in_function = FALSE
  /\ brace_count = 0
  /\ func_start = -1
  /\ i = 0
  /\ pc = "for_func"
  /\ run = 1
  /\ outputs = << >>
  /\ content = Flatten(main_ts)
  /\ fs_k = 0

\* for func_name in functions_to_remove: the next name, scanner state reset
NextFunc ==
  /\ pc = "for_func"
  /\ fi < Len(functions_to_remove)
  /\ fi' = fi + 1
  /\ in_function' = ResetInFunction(in_function)
  /\ brace_count' = 0
  /\ func_start' = -1
  /\ i' = 1
  /\ pc' = "scan"
  /\ UNCHANGED <<main_ts, lines, keep_lines, functions_to_remove, run, outputs, content, fs_k>>

\* the line is the start of the function
FunctionStart ==
  /\ pc = "scan"
  /\ i <= Len(lines)
  /\ IsFunctionStart(lines[i], func_name)
  /\ in_function' = TRUE
  /\ func_start' = i
  /\ brace_count' = 0
  /\ keep_lines' = [keep_lines EXCEPT ![i] = StartMark]
  /\ i' = i + 1
  /\ UNCHANGED <<main_ts, lines, functions_to_remove, fi, pc, run, outputs, content, fs_k>>

\* a line reached while in_function
InFunctionLine ==
  /\ pc = "scan"
  /\ i <= Len(lines)
  /\ ~IsFunctionStart(lines[i], func_name)
  /\ in_function
  /\ keep_lines' = [keep_lines EXCEPT ![i] = FALSE]
  /\ brace_count' = CountBraces(brace_count, lines[i])
  /\ in_function' = ~FunctionEnded(brace_count', lines[i])
  /\ i' = i + 1
  /\ UNCHANGED <<main_ts, lines, functions_to_remove, fi, func_start, pc, run, outputs, content, fs_k>>

\* a line reached outside any function of this name
OutsideLine ==
  /\ pc = "scan"
  /\ i <= Len(lines)
  /\ ~IsFunctionStart(lines[i], func_name)
  /\ ~in_function
  /\ i' = i + 1
  /\ UNCHANGED <<main_ts, lines, keep_lines, functions_to_remove, fi, in_function,
                 brace_count, func_start, pc, run, outputs, content, fs_k>>

\* enumerate(lines) is exhausted
EndOfLines ==
  /\ pc = "scan"
  /\ i > Len(lines)
  /\ pc' = "for_func"
  /\ UNCHANGED <<main_ts, lines, keep_lines, functions_to_remove, fi, in_function,
                 brace_count, func_start, i, run, outputs, content, fs_k>>

\* every name is done: write back only the kept lines
WriteKept ==
  /\ pc = "for_func"
  /\ fi = Len(functions_to_remove)
  /\ main_ts' = WriteBack(lines, keep_lines)
  /\ outputs' = Append(outputs, [read |-> lines, wrote |-> main_ts'])
  /\ pc' = "done"
  /\ UNCHANGED <<lines, keep_lines, functions_to_remove, fi, in_function,
                 brace_count, func_start, i, run, content, fs_k>>

\* the script is started again on the file it wrote
Rerun ==
  /\ pc = "done"
  /\ run < MaxRuns
  /\ fs_k = Len(functions_to_remove)
  /\ run' = run + 1
  /\ lines' = main_ts
  /\ keep_lines' = [k \in 1..Len(main_ts) |-> TRUE]
  /\ fi' = 0
  /\ in_function' = FALSE
  /\ brace_count' = 0
  /\ func_start' = -1
  /\ i' = 0
  /\ pc' = "for_func"
  /\ UNCHANGED <<main_ts, functions_to_remove, outputs, content, fs_k>>

\* remove_filesystem.py, one pass of its loop over functions_to_remove.  None
\* of the script's other substitutions matches a line of LineVocab.  It
\* works on its own copy of the original file, after the line-based script
\* has written its first output, so that the two results stand side by side.
RemoveFunction ==
  /\ pc = "done"
  /\ run = 1
  /\ fs_k < Len(functions_to_remove)
  /\ content' = ReSub(content, functions_to_remove[fs_k + 1])
  /\ fs_k' = fs_k + 1
  /\ UNCHANGED <<main_ts, lines, keep_lines, functions_to_remove, fi, in_function,
                 brace_count, func_start, i, pc, run, outputs>>

Next ==
  \/ NextFunc
  \/ FunctionStart
  \/ InFunctionLine
  \/ OutsideLine
  \/ EndOfLines
  \/ WriteKept
  \/ Rerun
  \/ RemoveFunction

Spec == Init /\ [][Next]_vars

TypeOK ==
  /\ pc \in {"for_func", "scan", "done"}
  /\ Len(keep_lines) = Len(lines)
  /\ fi \in 0..Len(functions_to_remove)
  /\ fs_k \in 0..Len(functions_to_remove)
  /\ run \in 1..MaxRuns

\* ------------------------------------------------ vocabulary of the properties
Requested == {functions_to_remove[k] : k \in 1..Len(functions_to_remove)}
Dropped == {k \in 1..Len(lines) : ~keep_lines[k]}
Finished == pc = "done"
FirstRunFinished == pc = "done" /\ run = 1

\* net count of "{" over "}" on the lines a..b
RECURSIVE BraceSum(_, _, _)
BraceSum(ls, a, b) ==
  IF a > b THEN 0
  ELSE Count(ls[a], "{") - Count(ls[a], "}") + BraceSum(ls, a + 1, b)

HasStart(ls, f) == \E k \in 1..Len(ls) : IsFunctionStart(ls[k], f)
OnlyStart(ls, s, f) == \A k \in 1..Len(ls) : k # s => ~IsFunctionStart(ls[k], f)

\* lines s..e are a balanced block declared at s: the depth, counted from the
\* declaration line's own "{", first returns to zero at e
BlockAt(ls, s, e, f) ==
  /\ s < e
  /\ IsFunctionStart(ls[s], f)
  /\ Count(ls[s], "{") = 1 /\ Count(ls[s], "}") = 0
  /\ BraceSum(ls, s, e) = 0
  /\ \A j \in s..(e - 1) : BraceSum(ls, s, j) > 0
NestedBody(ls, s, e) == \E j \in (s + 1)..(e - 1) : Count(ls[j], "{") > 0
FlatBody(ls, s, e) ==
  \A j \in (s + 1)..(e - 1) : Count(ls[j], "{") = 0 /\ Count(ls[j], "}") = 0

\* f is the one requested name that is declared in the lines, at s only
SoleTarget(ls, s, f) ==
  /\ f \in Requested
  /\ OnlyStart(ls, s, f)
  /\ \A g \in Requested \ {f} : ~HasStart(ls, g)

\* the scan that starts at declaration line s finds its end condition at line j
EndFoundAt(ls, s, j) == BraceSum(ls, s + 1, j) = 0 /\ Contains(ls[j], <<"\t", "}">>)
\* line k lies in the span the scan detects for f: from the last declaration
\* of f at or before k up to the first line where the end condition is found
InDetectedSpan(ls, k, f) ==
  \E s \in 1..k :
    /\ IsFunctionStart(ls[s], f)
    /\ \A j \in (s + 1)..k : ~IsFunctionStart(ls[j], f)
    /\ \A j \in (s + 1)..(k - 1) : ~EndFoundAt(ls, s, j)

\* out is the subsequence of ls at the index set K, in order
SubsequenceAt(out, ls, K) ==
  /\ Len(out) = Cardinality(K)
  /\ \A k \in K : out[Cardinality({j \in K : j <= k})] = ls[k]

\* -------------------------------------------------------------------- claims

\* C1 (as stated): a requested block whose body holds an inner "{" ... "}" pair
\* is dropped from its declaration line through its own outer closing line,
\* no more and no less.
C1_BalancedNesting ==
  FirstRunFinished =>
    \A f \in Requested : \A s, e \in 1..Len(lines) :
      (SoleTarget(lines, s, f) /\ BlockAt(lines, s, e, f) /\ NestedBody(lines, s, e))
        => Dropped = s..e

\* C8 (as stated): the depth starts at the declaration line's own brace
\* balance, and a requested block with a brace-free body is dropped exactly
\* through its closing line, the lines after it being kept.
C8_DepthFromOpeningLine ==
  /\ (pc = "scan" /\ in_function /\ func_start = i - 1)
       => brace_count = BraceSum(lines, func_start, func_start)
  /\ FirstRunFinished =>
       \A f \in Requested : \A s, e \in 1..Len(lines) :
         (SoleTarget(lines, s, f) /\ BlockAt(lines, s, e, f) /\ FlatBody(lines, s, e))
           => Dropped = s..e

\* the block declared at s for f is never closed: neither the depth counted
\* from the declaration line nor the scan's end condition is met on a later line
Unterminated(ls, s, f) ==
  /\ IsFunctionStart(ls[s], f)
  /\ OnlyStart(ls, s, f)
  /\ \A e \in (s + 1)..Len(ls) : BraceSum(ls, s, e) # 0 /\ ~EndFoundAt(ls, s, e)

\* C3 (as stated): a requested name whose block is never closed drops no line;
\* whatever is dropped is dropped by the span of another requested name.
C3_UnterminatedSkipped ==
  FirstRunFinished =>
    \A f \in Requested : \A s \in 1..Len(lines) :
      Unterminated(lines, s, f) =>
        \A k \in Dropped : \E g \in Requested \ {f} : k \in DroppedAlone(lines, g)

\* lines s..e are a well-formed block of that name: its declaration, a
\* balanced body without declarations, and the closing line "\t}"
WellFormed(ls, s, e, name) ==
  /\ BlockAt(ls, s, e, name)
  /\ ls[s] = Decl(name)
  /\ ls[e] = OuterClose
  /\ \A j \in (s + 1)..e : \A g \in Names : ~IsFunctionStart(ls[j], g)

\* C4 (as stated): with well-formed blocks "sync" and "syncAll" in the file and
\* only "sync" requested, the declaration of syncAll is not taken for a start
\* of sync and no line of the syncAll block is dropped.
C4_SubstringSafety ==
  (FirstRunFinished /\ functions_to_remove = <<sync>>) =>
    \A s1, e1, s2, e2 \in 1..Len(lines) :
      (/\ WellFormed(lines, s1, e1, sync)
       /\ WellFormed(lines, s2, e2, syncAll)
       /\ (e1 < s2 \/ e2 < s1))
        => /\ ~IsFunctionStart(lines[s2], sync)
           /\ \A k \in s2..e2 : keep_lines[k]

\* C2: running the removal again on what a run wrote, with the same names,
\* writes exactly the same lines.
C2_Idempotent ==
  \A r \in 2..Len(outputs) :
    /\ outputs[r].read = outputs[r - 1].wrote
    /\ outputs[r].wrote = outputs[r - 1].wrote
\* a second run has finished on the output of a first run that removed some
\* lines and kept others
C2_Witness ==
  /\ Len(outputs) = 2
  /\ outputs[1].wrote # << >>
  /\ Len(outputs[1].wrote) < Len(outputs[1].read)
  /\ Requested # {}

\* C5: the lines dropped for a list of names are exactly the union of the
\* lines each name's pass drops when run alone on the original lines, in
\* whatever order the names are listed.
C5_NonInterference ==
  Finished => Dropped = UNION {DroppedAlone(lines, f) : f \in Requested}
\* two names were processed, each dropping lines the other does not
C5_Witness ==
  /\ FirstRunFinished
  /\ functions_to_remove = <<syncAll, sync>>
  /\ DroppedAlone(lines, sync) # {}
  /\ DroppedAlone(lines, syncAll) # {}
  /\ DroppedAlone(lines, sync) \cap DroppedAlone(lines, syncAll) = {}
  /\ Dropped = DroppedAlone(lines, sync) \cup DroppedAlone(lines, syncAll)

\* C6: when no line holds the opening signature of a requested name, every
\* keep_lines entry stays true and the lines written are the lines read; the
\* empty file yields the empty file.
C6_NoOpOnAbsence ==
  (Finished /\ \A f \in Requested : ~HasStart(lines, f)) =>
    /\ \A k \in 1..Len(lines) : keep_lines[k]
    /\ main_ts = lines
\* a run over a non-empty file that declares only a name that was not requested
C6_Witness ==
  /\ FirstRunFinished
  /\ functions_to_remove = <<sync>>
  /\ HasStart(lines, syncAll)
  /\ ~HasStart(lines, sync)
  /\ Len(lines) >= 2
  /\ main_ts = lines

\* C7: what is written is the subsequence of the lines read at the kept
\* indices, in order and unaltered, and a line is missing from it exactly when
\* it lies in the span detected for some requested name.
C7_NonDestructive ==
  Finished =>
    /\ SubsequenceAt(main_ts, lines, (1..Len(lines)) \ Dropped)
    /\ \A k \in 1..Len(lines) :
         (k \in Dropped) <=> (\E f \in Requested : InDetectedSpan(lines, k, f))
\* a detected span ended before the end of the file: lines of it are gone and
\* the line after it is written
C7_Witness ==
  /\ FirstRunFinished
  /\ Cardinality(Dropped) >= 2
  /\ Len(lines) \notin Dropped
  /\ Len(lines) - 1 \in Dropped
  /\ Len(main_ts) = Len(lines) - Cardinality(Dropped)
  /\ main_ts[Len(main_ts)] = lines[Len(lines)]

\* C9 precondition: f is declared (last at s) and neither variant finds a
\* closing marker for it: the scan's end condition is met on no later line,
\* and the text holds no "\n\t}\n" after the first declaration
NoCloseFound(ls, s, f) ==
  /\ IsFunctionStart(ls[s], f)
  /\ \A j \in (s + 1)..Len(ls) : ~IsFunctionStart(ls[j], f) /\ ~EndFoundAt(ls, s, j)
  /\ LET c == Flatten(ls)
         p == FirstLit(c, 1, Signature(f))
     IN  FirstLit(c, p, PatClose) = 0

\* C9: when a requested declaration is found but no closing marker for it,
\* the brace-counting script drops the declaration line and every line after
\* it to the end of the file, while the substitution script, given the same
\* file and name, leaves the text as it was.
C9_VariantsDisagree ==
  FirstRunFinished =>
    \A f \in Requested : \A s \in 1..Len(lines) :
      NoCloseFound(lines, s, f) =>
        /\ s..Len(lines) \subseteq Dropped
        /\ (functions_to_remove = <<f>> /\ fs_k = 1) => content = Flatten(lines)
\* both scripts have run on a file with an unclosed declaration followed by
\* more lines: the first wrote less than it read, the second changed nothing
C9_Witness ==
  /\ FirstRunFinished
  /\ fs_k = 1
  /\ \E f \in Names : \E s \in 2..(Len(lines) - 1) :
       /\ functions_to_remove = <<f>>
       /\ NoCloseFound(lines, s, f)
       /\ Flatten(main_ts) # content
       /\ content = Flatten(lines)

\* C10 step property: within a run keep_lines entries never go back to true,
\* and a line holding the current name's signature is dropped whatever the
\* scanner state, tracking restarting at depth 0
C10_Step ==
  /\ run' = run => \A k \in 1..Len(lines) : ~keep_lines[k] => ~keep_lines'[k]
  /\ (pc = "scan" /\ i <= Len(lines) /\ IsFunctionStart(lines[i], func_name))
       => (~keep_lines'[i] /\ in_function' /\ brace_count' = 0 /\ func_start' = i)
\* C10: every line that holds the opening signature of a requested name is
\* dropped, so no written line holds one, and keep_lines only ever changes
\* from true to false.
C10_SignaturesDropped ==
  /\ [](Finished => \A k \in 1..Len(main_ts) : \A f \in Requested :
                      ~IsFunctionStart(main_ts[k], f))
  /\ [][C10_Step]_vars
\* a declaration was reached while already inside the block of the
\* declaration on the line before, and tracking restarted there
C10_Witness ==
  /\ pc = "scan"
  /\ func_start > 1
  /\ i = func_start + 1
  /\ IsFunctionStart(lines[func_start - 1], func_name)
  /\ IsFunctionStart(lines[func_start], func_name)
  /\ in_function /\ brace_count = 0
  /\ ~keep_lines[func_start - 1] /\ ~keep_lines[func_start]
====
